---------------------------- MODULE Spec2Model ----------------------------
(***************************************************************************)
(* Month view of the scheduling dashboard (src/components/month-view.tsx)  *)
(* and the dashboard handlers that feed it                                 *)
(* (src/components/scheduling-dashboard.tsx).                              *)
(*                                                                         *)
(* A JavaScript Date is modelled in local civil time as a record           *)
(* [day, ms]: day is the number of calendar days since 1 January of        *)
(* EpochYear (a Monday), ms the milliseconds since local midnight.  The    *)
(* order of two Dates (<=, >= on their time values) is the lexicographic   *)
(* order of (day, ms).  Every local day is taken to have 24 hours (no       *)
(* daylight-saving change).                                                *)
(*                                                                         *)
(* An Appointment keeps the fields the month view computes with: id,       *)
(* startTime and endTime.  title, provider, facility, type and color are   *)
(* only displayed.                                                         *)
(***************************************************************************)
EXTENDS Integers, Sequences, FiniteSets, TLC

VARIABLES
    currentDate,          \* SchedulingDashboard state, MonthView prop
    view,                 \* SchedulingDashboard state: "day" | "week" | "month"
    currentAppointments,  \* SchedulingDashboard state, MonthView prop `appointments`
    overflowModal         \* MonthView state: [isOpen, date, appointments]

vars == <<currentDate, view, currentAppointments, overflowModal>>

-----------------------------------------------------------------------------
(* Bounds of the model *)

\* navigation is followed through the years EpochYear .. EpochYear + MaxYears - 1
MaxYears == 3
\* the planner specification follows navigation this many days around InitialDate
MaxNavDays == 31
\* number of appointments in the planner specification
MaxPlanAppointments == 2
\* number of appointments in the day-cell specification
MaxDayAppointments == 5

-----------------------------------------------------------------------------
(* The calendar: JavaScript's Date in local time *)

EpochYear == 2024
EndOfDayMs == 86399999
GridSize == 42
maxVisibleEvents == 3

IsLeap(y) == (y % 4 = 0 /\ y % 100 # 0) \/ y % 400 = 0

LeapsBefore(y) == ((y - 1) \div 4) - ((y - 1) \div 100) + ((y - 1) \div 400)

\* day number of 1 January of year y
DaysBeforeYear(y) == 365 * (y - EpochYear) + LeapsBefore(y) - LeapsBefore(EpochYear)

\* days of a common year before month m (0 = January)
CumulativeDays == <<0, 31, 59, 90, 120, 151, 181, 212, 243, 273, 304, 334>>

DaysBeforeMonth(y, m) == CumulativeDays[m + 1] + (IF m > 1 /\ IsLeap(y) THEN 1 ELSE 0)

\* Day number of the 1st of month k % 12 of year k \div 12, for the months of
\* the years the model can meet and two years on either side.
MonthStart ==
    [k \in (12 * (EpochYear - 2))..(12 * (EpochYear + MaxYears + 2)) |->
        DaysBeforeYear(k \div 12) + DaysBeforeMonth(k \div 12, k % 12)]

\* Day number of (year, month, day) as the Date constructor and the setters
\* normalise it: a month outside 0..11 carries into the year, a day outside the
\* month carries into the neighbouring months.
DayNumber(y, m, d) == MonthStart[12 * y + m] + d - 1

RECURSIVE YearOfDay(_, _)
YearOfDay(y, n) ==
    IF n < DaysBeforeYear(y) THEN YearOfDay(y - 1, n)
    ELSE IF n >= DaysBeforeYear(y + 1) THEN YearOfDay(y + 1, n)
    ELSE y

RECURSIVE MonthOfDay(_, _, _)
MonthOfDay(y, m, n) ==
    IF n >= DayNumber(y, m + 1, 1) THEN MonthOfDay(y, m + 1, n) ELSE m

\* The civil date <<year, month, day of month>> of every day number the model
\* can meet: the years of navigation and one year on either side.
CivilDays == DaysBeforeYear(EpochYear - 1) .. DaysBeforeYear(EpochYear + MaxYears + 1) - 1
CivilDate ==
    [n \in CivilDays |->
        LET y == YearOfDay(EpochYear, n)
            m == MonthOfDay(y, 0, n)
        IN  <<y, m, n - DayNumber(y, m, 1) + 1>>]

getFullYear(date) == CivilDate[date.day][1]
getMonth(date) == CivilDate[date.day][2]
getDate(date) == CivilDate[date.day][3]
\* 0 = Sunday .. 6 = Saturday; day 0 (1 January of EpochYear) is a Monday
getDay(date) == (date.day + 1) % 7

\* new Date(year, month, day): local midnight
NewDate(y, m, d) == [day |-> DayNumber(y, m, d), ms |-> 0]
\* new Date(year, month, day, hours, minutes)
NewDateTime(y, m, d, h, mi) == [day |-> DayNumber(y, m, d), ms |-> (h * 60 + mi) * 60000]

setDate(date, d) ==
    [day |-> DayNumber(getFullYear(date), getMonth(date), d), ms |-> date.ms]
setMonth(date, m) ==
    [day |-> DayNumber(getFullYear(date), m, getDate(date)), ms |-> date.ms]
setFullYear(date, y) ==
    [day |-> DayNumber(y, getMonth(date), getDate(date)), ms |-> date.ms]
\* setHours(0, 0, 0, 0) and setHours(23, 59, 59, 999)
StartOfDay(date) == [day |-> date.day, ms |-> 0]
EndOfDay(date) == [day |-> date.day, ms |-> EndOfDayMs]

\* "Mon Jun 23 2025": weekday, month, day of month, year
toDateString(date) == <<getDay(date), getMonth(date), getDate(date), getFullYear(date)>>

\* a <= b on Dates
DateLE(a, b) == a.day < b.day \/ (a.day = b.day /\ a.ms <= b.ms)

-----------------------------------------------------------------------------
(* MonthView: the month grid *)

\* mutant: the week starts on Sunday
buildGrid_SundayFirst(refDate) ==
    LET firstDay == NewDate(getFullYear(refDate), getMonth(refDate), 1)
        startDate == setDate(firstDay, getDate(firstDay) - getDay(firstDay))
    IN  [i \in 1..GridSize |-> setDate(startDate, getDate(startDate) + (i - 1))]

\* mutant: five weeks of dates
buildGrid_FiveWeeks(refDate) ==
    LET firstDay == NewDate(getFullYear(refDate), getMonth(refDate), 1)
        dayOfWeek == getDay(firstDay)
        startDate == setDate(firstDay,
                             getDate(firstDay) - (IF dayOfWeek = 0 THEN 6 ELSE dayOfWeek - 1))
    IN  [i \in 1..35 |-> setDate(startDate, getDate(startDate) + (i - 1))]

\* mutant: the offset of the first day is one too large
buildGrid_OffsetOneMore(refDate) ==
    LET firstDay == NewDate(getFullYear(refDate), getMonth(refDate), 1)
        dayOfWeek == getDay(firstDay)
        startDate == setDate(firstDay,
                             getDate(firstDay) - (IF dayOfWeek = 0 THEN 7 ELSE dayOfWeek))
    IN  [i \in 1..GridSize |-> setDate(startDate, getDate(startDate) + (i - 1))]

\* mutant: the grid starts from the week of the reference date
buildGrid_FromReferenceDate(refDate) ==
    LET firstDay == StartOfDay(refDate)
        dayOfWeek == getDay(firstDay)
        startDate == setDate(firstDay,
                             getDate(firstDay) - (IF dayOfWeek = 0 THEN 6 ELSE dayOfWeek - 1))
    IN  [i \in 1..GridSize |-> setDate(startDate, getDate(startDate) + (i - 1))]

buildGrid(refDate) ==
    LET year == getFullYear(refDate)
        month == getMonth(refDate)
        firstDay == NewDate(year, month, 1)
        dayOfWeek == getDay(firstDay)
        startDate == setDate(firstDay,
                             getDate(firstDay) - (IF dayOfWeek = 0 THEN 6 ELSE dayOfWeek - 1))
    IN  [i \in 1..GridSize |-> setDate(startDate, getDate(startDate) + (i - 1))]

monthData == buildGrid(currentDate)

-----------------------------------------------------------------------------
(* MonthView: day membership and spans *)

\* mutant: an appointment must end after the first instant of the day
getAppointmentsForDate_HalfOpen(date) ==
    LET dayStart == StartOfDay(date)
        dayEnd == EndOfDay(date)
        Overlaps(apt) == DateLE(apt.startTime, dayEnd) /\ ~DateLE(apt.endTime, dayStart)
    IN  SelectSeq(currentAppointments, Overlaps)

\* mutant: a day lists the appointments that start on it
getAppointmentsForDate_StartsOnDay(date) ==
    LET dayStart == StartOfDay(date)
        dayEnd == EndOfDay(date)
        Overlaps(apt) == DateLE(apt.startTime, dayEnd) /\ DateLE(dayStart, apt.startTime)
    IN  SelectSeq(currentAppointments, Overlaps)

getAppointmentsForDate(date) ==
    LET dayStart == StartOfDay(date)
        dayEnd == EndOfDay(date)
        Overlaps(apt) == DateLE(apt.startTime, dayEnd) /\ DateLE(dayStart, apt.endTime)
    IN  SelectSeq(currentAppointments, Overlaps)

\* the while loop of getAppointmentSpanDates, from the value of its currentDate
RECURSIVE SpanLoop(_, _)
SpanLoop(cur, endDate) ==
    IF DateLE(cur, endDate)
    THEN <<cur>> \o SpanLoop(setDate(cur, getDate(cur) + 1), endDate)
    ELSE <<>>

\* mutant: the start is not truncated to midnight
getAppointmentSpanDates_NoTruncate(appointment) ==
    SpanLoop(appointment.startTime, appointment.endTime)

\* mutant: the start date is pushed before the bound is tested
getAppointmentSpanDates_AtLeastStart(appointment) ==
    LET start == StartOfDay(appointment.startTime)
    IN  <<start>> \o SpanLoop(setDate(start, getDate(start) + 1), appointment.endTime)

\* mutant: the span runs from the earlier to the later of the two instants
getAppointmentSpanDates_EitherOrder(appointment) ==
    IF DateLE(appointment.startTime, appointment.endTime)
    THEN SpanLoop(StartOfDay(appointment.startTime), appointment.endTime)
    ELSE SpanLoop(StartOfDay(appointment.endTime), appointment.startTime)

getAppointmentSpanDates(appointment) ==
    SpanLoop(StartOfDay(appointment.startTime), appointment.endTime)

-----------------------------------------------------------------------------
(* MonthView: the planner of multi-day segments *)

\* Array.prototype.findIndex with the planner's predicate: the 0-based index of
\* the first date of `dates` with the date string of `target`, or -1
findIndex(dates, target) ==
    LET wanted == toDateString(target)
        hits == {i \in DOMAIN dates : toDateString(dates[i]) = wanted}
    IN  IF hits = {} THEN -1
        ELSE (CHOOSE i \in hits : \A j \in hits : i <= j) - 1

\* A JavaScript Map as the sequence of its entries in insertion order.
\* Map.prototype.set: an existing key keeps its place and takes the new value.
MapSet(map, key, value) ==
    IF \E i \in DOMAIN map : map[i].key = key
    THEN [i \in DOMAIN map |->
             IF map[i].key = key THEN [key |-> key, value |-> value] ELSE map[i]]
    ELSE Append(map, [key |-> key, value |-> value])

RowKey(id, row) == id \o "-row-" \o ToString(row)

\* mutant: a span of one date counts as multi-day
IsMultiDay_AtLeastOne(spanDates) == Len(spanDates) >= 1

\* spanDates.length > 1
IsMultiDay(spanDates) == Len(spanDates) > 1

\* mutant: one end in the grid is enough
BothInGrid_Either(startIndex, endIndex) == startIndex # -1 \/ endIndex # -1

\* startIndex !== -1 && endIndex !== -1
BothInGrid(startIndex, endIndex) == startIndex # -1 /\ endIndex # -1

\* mutant: every row's segment starts at the appointment's start column
segmentStartCol_EveryRow(row, startRow, startCol) == startCol

segmentStartCol(row, startRow, startCol) == IF row = startRow THEN startCol ELSE 0

\* mutant: every row's segment runs to the last column
segmentEndCol_AlwaysLast(row, endRow, endCol) == 6

segmentEndCol(row, endRow, endCol) == IF row = endRow THEN endCol ELSE 6

\* The Map.set calls the planner makes for one appointment (the body of its
\* forEach), in order: a sequence of [key, value].
SegmentsOf(appointment, grid) ==
    LET spanDates == getAppointmentSpanDates(appointment)
    IN  IF IsMultiDay(spanDates)
        THEN LET startIndex == findIndex(grid, spanDates[1])
                 endIndex == findIndex(grid, spanDates[Len(spanDates)])
             IN  IF BothInGrid(startIndex, endIndex)
                 THEN LET startCol == startIndex % 7
                          endCol == endIndex % 7
                          startRow == startIndex \div 7
                          endRow == endIndex \div 7
                      IN  IF startRow = endRow
                          THEN << [key |-> appointment.id,
                                   value |-> [appointment |-> appointment,
                                              startCol |-> startCol,
                                              endCol |-> endCol,
                                              row |-> startRow,
                                              spanDates |-> spanDates]] >>
                          ELSE [k \in 1..(endRow - startRow + 1) |->
                                   LET row == startRow + k - 1
                                   IN  [key |-> RowKey(appointment.id, row),
                                        value |-> [appointment |-> appointment,
                                                   startCol |-> segmentStartCol(row, startRow, startCol),
                                                   endCol |-> segmentEndCol(row, endRow, endCol),
                                                   row |-> row,
                                                   spanDates |-> spanDates]]]
                 ELSE <<>>
        ELSE <<>>

RECURSIVE MapSetAll(_, _)
MapSetAll(map, calls) ==
    IF calls = <<>> THEN map
    ELSE MapSetAll(MapSet(map, Head(calls).key, Head(calls).value), Tail(calls))

RECURSIVE PlanLoop(_, _, _)
PlanLoop(map, appointments, grid) ==
    IF appointments = <<>> THEN map
    ELSE PlanLoop(MapSetAll(map, SegmentsOf(Head(appointments), grid)),
                  Tail(appointments), grid)

\* getMultiDayAppointments() for a list of appointments and a grid
planSegments(appointments, grid) == PlanLoop(<<>>, appointments, grid)

getMultiDayAppointments == planSegments(currentAppointments, monthData)

\* Array.from(multiDayAppointments.values()): the segments the overlay draws
multiDayAppointments ==
    LET map == getMultiDayAppointments
    IN  [i \in DOMAIN map |-> map[i].value]

-----------------------------------------------------------------------------
(* MonthView: the day cells *)

dayAppointments(date) == getAppointmentsForDate(date)

IsSingleDay(apt) == Len(getAppointmentSpanDates(apt)) = 1

singleDayAppointments(date) == SelectSeq(dayAppointments(date), IsSingleDay)

\* Array.prototype.slice(0, n)
SliceFirst(list, n) == SubSeq(list, 1, IF Len(list) < n THEN Len(list) ELSE n)

\* mutant: the visible events are cut from the unfiltered list of the day
visibleEvents_Unfiltered(date) == SliceFirst(dayAppointments(date), maxVisibleEvents)

visibleEvents(date) == SliceFirst(singleDayAppointments(date), maxVisibleEvents)

hiddenEventsCount(date) == Len(singleDayAppointments(date)) - maxVisibleEvents

\* the "+N more" button is rendered
ShowMoreRendered(date) == hiddenEventsCount(date) > 0

\* mutant: the button passes the single-day list
ShowMoreArguments_SingleDayOnly(date) ==
    [date |-> date, dayAppointments |-> singleDayAppointments(date)]

\* the arguments the button's onClick passes to handleShowMoreEvents
ShowMoreArguments(date) == [date |-> date, dayAppointments |-> dayAppointments(date)]

handleShowMoreEvents(date, dayAppts) ==
    /\ overflowModal' = [isOpen |-> TRUE, date |-> date, appointments |-> dayAppts]
    /\ UNCHANGED <<currentDate, view, currentAppointments>>

\* a click on the "+N more" button of the cell at grid position i
ClickShowMore(i) ==
    /\ ShowMoreRendered(monthData[i])
    /\ handleShowMoreEvents(ShowMoreArguments(monthData[i]).date,
                            ShowMoreArguments(monthData[i]).dayAppointments)

\* EventOverflowModal's onClose
CloseOverflowModal ==
    /\ overflowModal' = [overflowModal EXCEPT !.isOpen = FALSE]
    /\ UNCHANGED <<currentDate, view, currentAppointments>>

-----------------------------------------------------------------------------
(* SchedulingDashboard: the appointment list *)

handleAppointmentUpdate(appointmentId, newStartTime, newEndTime) ==
    /\ currentAppointments' =
          [i \in DOMAIN currentAppointments |->
              IF currentAppointments[i].id = appointmentId
              THEN [currentAppointments[i] EXCEPT !.startTime = newStartTime,
                                                  !.endTime = newEndTime]
              ELSE currentAppointments[i]]
    /\ UNCHANGED <<currentDate, view, overflowModal>>

handleDeleteAppointment(appointmentId) ==
    /\ LET Keep(apt) == apt.id # appointmentId
       IN  currentAppointments' = SelectSeq(currentAppointments, Keep)
    /\ UNCHANGED <<currentDate, view, overflowModal>>

-----------------------------------------------------------------------------
(* SchedulingDashboard: navigation *)

InitialDate == NewDate(2025, 5, 23)

Views == {"day", "week", "month"}
SelectableYears == {2024, 2025, 2026}
SelectableMonths == 0..11

\* values `new Date()` takes in the model
Nows == {NewDateTime(2026, 0, 31, 9, 30)}

navigateDate(date, v, direction) ==
    IF v = "day" THEN setDate(date, getDate(date) + (IF direction = "next" THEN 1 ELSE -1))
    ELSE IF v = "week" THEN setDate(date, getDate(date) + (IF direction = "next" THEN 7 ELSE -7))
    ELSE setMonth(date, getMonth(date) + (IF direction = "next" THEN 1 ELSE -1))

InYears(date) ==
    /\ date.day >= DaysBeforeYear(EpochYear)
    /\ date.day < DaysBeforeYear(EpochYear + MaxYears)

Navigate(direction) ==
    /\ InYears(navigateDate(currentDate, view, direction))
    /\ currentDate' = navigateDate(currentDate, view, direction)
    /\ UNCHANGED <<view, currentAppointments, overflowModal>>

goToToday ==
    /\ \E now \in Nows : currentDate' = now
    /\ UNCHANGED <<view, currentAppointments, overflowModal>>

SelectMonth(value) ==
    /\ currentDate' = setMonth(currentDate, value)
    /\ InYears(currentDate')
    /\ UNCHANGED <<view, currentAppointments, overflowModal>>

SelectYear(value) ==
    /\ currentDate' = setFullYear(currentDate, value)
    /\ InYears(currentDate')
    /\ UNCHANGED <<view, currentAppointments, overflowModal>>

setView(v) ==
    /\ view' = v
    /\ UNCHANGED <<currentDate, currentAppointments, overflowModal>>

ClosedModal(now) == [isOpen |-> FALSE, date |-> now, appointments |-> <<>>]

InitGrid ==
    /\ currentDate = InitialDate
    /\ view = "week"
    /\ currentAppointments = <<>>
    /\ \E now \in Nows : overflowModal = ClosedModal(now)

NextGrid ==
    \/ \E direction \in {"prev", "next"} : Navigate(direction)
    \/ goToToday
    \/ \E value \in SelectableMonths : SelectMonth(value)
    \/ \E value \in SelectableYears : SelectYear(value)
    \/ \E v \in Views : setView(v)

SpecGrid == InitGrid /\ [][NextGrid]_vars

-----------------------------------------------------------------------------
(* The planner specification: the month view over every list of            *)
(* MaxPlanAppointments appointments with start and end among PlanInstants, *)
(* as the dashboard's handlers change the list and the reference month.    *)

PlanIds == <<"apt-row-5", "apt", "visit", "exam">>
PlanIdSet == {PlanIds[i] : i \in 1..MaxPlanAppointments}

\* 7 June 2025 is row 1 column 5 of the grid of June (26 May .. 6 July) and in
\* the grid of May (28 April .. 8 June); 28 June is row 4 column 5 of the grid
\* of June; 30 June and 1 July are row 5 columns 0 and 1 of the grid of June and
\* row 0 of the grid of July (30 June .. 10 August).
PlanInstants ==
    { NewDateTime(2025, 5, 7, 8, 0),
      NewDateTime(2025, 5, 7, 10, 0),
      NewDateTime(2025, 5, 28, 10, 0),
      NewDateTime(2025, 5, 30, 14, 0),
      NewDateTime(2025, 6, 1, 0, 0) }

\* the `appointments` prop: one-day appointments on 7 June, 08:00 to 10:00
InitPlan ==
    /\ currentDate = InitialDate
    /\ view = "month"
    /\ currentAppointments =
          [i \in 1..MaxPlanAppointments |->
              [id |-> PlanIds[i],
               startTime |-> NewDateTime(2025, 5, 7, 8, 0),
               endTime |-> NewDateTime(2025, 5, 7, 10, 0)]]
    /\ \E now \in Nows : overflowModal = ClosedModal(now)

NavigatePlan(direction) ==
    /\ navigateDate(currentDate, view, direction).day - InitialDate.day \in -MaxNavDays..MaxNavDays
    /\ currentDate' = navigateDate(currentDate, view, direction)
    /\ UNCHANGED <<view, currentAppointments, overflowModal>>

UpdatePlan ==
    \E id \in PlanIdSet, newStartTime \in PlanInstants, newEndTime \in PlanInstants :
        handleAppointmentUpdate(id, newStartTime, newEndTime)

\* the editor's onDelete, for the appointment opened in it
DeletePlan == \E id \in PlanIdSet : handleDeleteAppointment(id)

NextPlan ==
    \/ \E direction \in {"prev", "next"} : NavigatePlan(direction)
    \/ UpdatePlan
    \/ DeletePlan

SpecPlan == InitPlan /\ [][NextPlan]_vars

-----------------------------------------------------------------------------
(* The day-cell specification: the month view of June 2025 over lists of   *)
(* up to MaxDayAppointments appointments on and around 15 June, with the   *)
(* overflow modal.                                                         *)

DayIds == <<"a1", "a2", "a3", "a4", "a5", "a6">>
DayIdSet == {DayIds[i] : i \in 1..MaxDayAppointments}

\* <<startTime, endTime>>: on 15 June 08:00-09:00, and 14 June 10:00 to 16 June 12:00
DayShapes ==
    { <<NewDateTime(2025, 5, 15, 8, 0), NewDateTime(2025, 5, 15, 9, 0)>>,
      <<NewDateTime(2025, 5, 14, 10, 0), NewDateTime(2025, 5, 16, 12, 0)>> }

\* the `appointments` prop: one-day appointments on 15 June, 08:00 to 09:00
Init ==
    /\ currentDate = InitialDate
    /\ view = "month"
    /\ currentAppointments =
          [i \in 1..MaxDayAppointments |->
              [id |-> DayIds[i],
               startTime |-> NewDateTime(2025, 5, 15, 8, 0),
               endTime |-> NewDateTime(2025, 5, 15, 9, 0)]]
    /\ \E now \in Nows : overflowModal = ClosedModal(now)

UpdateDay ==
    \E id \in DayIdSet, shape \in DayShapes :
        handleAppointmentUpdate(id, shape[1], shape[2])

\* the editor's onDelete, for the appointment opened in it
DeleteDay == \E id \in DayIdSet : handleDeleteAppointment(id)

Next ==
    \/ UpdateDay
    \/ DeleteDay
    \/ \E i \in 1..GridSize : ClickShowMore(i)
    \/ CloseOverflowModal

Spec == Init /\ [][Next]_vars

-----------------------------------------------------------------------------
(* Vocabulary of the properties, stated without the operators of the view  *)

\* the 0-based grid index of a calendar day of the grid
IndexOfDay(grid, day) == day - grid[1].day

DayInGrid(grid, day) == \E i \in DOMAIN grid : grid[i].day = day

Midnight(day) == [day |-> day, ms |-> 0]

June2025 == getFullYear(currentDate) = 2025 /\ getMonth(currentDate) = 5

-----------------------------------------------------------------------------
(* C1: for every reference date the grid has exactly 42 dates, each one     *)
(* calendar day after the previous one, and the date at index 0 is the     *)
(* Monday on or before the first day of the reference date's month.        *)
GridIs42ConsecutiveFromMonday ==
    LET first == NewDate(getFullYear(currentDate), getMonth(currentDate), 1)
        grid == monthData
    IN  /\ DOMAIN grid = 1..42
        /\ \A i \in 1..41 :
              /\ grid[i + 1].day = grid[i].day + 1
              /\ grid[i + 1].ms = grid[i].ms
        /\ getDay(grid[1]) = 1
        /\ grid[1].ms = 0
        /\ grid[1].day <= first.day
        /\ first.day - grid[1].day <= 6

\* February 2026 starts on a Sunday: its grid runs from 26 January to 8 March
GridOfFebruary2026 ==
    /\ getFullYear(currentDate) = 2026
    /\ getMonth(currentDate) = 1
    /\ getDate(currentDate) > 1
    /\ currentDate.ms # 0
    /\ monthData[1] = NewDate(2026, 0, 26)
    /\ monthData[42] = NewDate(2026, 2, 8)

-----------------------------------------------------------------------------
(* C2: for every multi-day appointment whose first and last span dates are *)
(* in the grid, the planner emits one segment on the row when both fall on *)
(* one row, with columns [startColumn, endColumn]; otherwise one segment   *)
(* per row from startRow to endRow, the first with columns                 *)
(* [startColumn, 6], every interior one [0, 6] and the last [0, endColumn],*)
(* each with the appointment's span dates.  An appointment from Saturday   *)
(* 28 June to Monday 30 June 2025 gets 2 segments in the grid of June 2025.*)
SegmentsSplitByRow ==
    LET grid == monthData
    IN  \A n \in DOMAIN currentAppointments :
          LET apt == currentAppointments[n]
              span == getAppointmentSpanDates(apt)
              first == span[1].day
              last == span[Len(span)].day
              startRow == IndexOfDay(grid, first) \div 7
              endRow == IndexOfDay(grid, last) \div 7
              startColumn == IndexOfDay(grid, first) % 7
              endColumn == IndexOfDay(grid, last) % 7
              emitted == SegmentsOf(apt, grid)
          IN  (Len(span) > 1 /\ DayInGrid(grid, first) /\ DayInGrid(grid, last)) =>
                /\ Len(emitted) = endRow - startRow + 1
                /\ \A k \in DOMAIN emitted :
                      LET seg == emitted[k].value
                      IN  /\ seg.appointment = apt
                          /\ seg.spanDates = span
                          /\ seg.row = startRow + k - 1
                          /\ seg.startCol = (IF k = 1 THEN startColumn ELSE 0)
                          /\ seg.endCol = (IF seg.row = endRow THEN endColumn ELSE 6)

\* the appointment of 28 June 10:00 to 30 June 14:00 in the grid of June 2025:
\* row 4 columns [5, 6] and row 5 columns [0, 0]
SaturdayToMondayIsTwoSegments ==
    /\ June2025
    /\ \E n \in DOMAIN currentAppointments :
          LET apt == currentAppointments[n]
              emitted == SegmentsOf(apt, monthData)
          IN  /\ apt.startTime = NewDateTime(2025, 5, 28, 10, 0)
              /\ apt.endTime = NewDateTime(2025, 5, 30, 14, 0)
              /\ Len(emitted) = 2
              /\ emitted[1].value.row = 4
              /\ emitted[1].value.startCol = 5 /\ emitted[1].value.endCol = 6
              /\ emitted[2].value.row = 5
              /\ emitted[2].value.startCol = 0 /\ emitted[2].value.endCol = 0
              /\ \E i \in DOMAIN multiDayAppointments :
                    multiDayAppointments[i].appointment = apt

-----------------------------------------------------------------------------
(* C3: with pairwise distinct ids, the planner's output holds for every    *)
(* multi-day appointment with both ends in the grid exactly one segment    *)
(* per row it spans: no segment is replaced by another appointment's and   *)
(* none is dropped.                                                        *)
DistinctIds ==
    \A i, j \in DOMAIN currentAppointments :
        currentAppointments[i].id = currentAppointments[j].id => i = j

OneSegmentPerEventAndRow ==
    LET grid == monthData
        output == multiDayAppointments
    IN  DistinctIds =>
          \A n \in DOMAIN currentAppointments :
            LET apt == currentAppointments[n]
                span == getAppointmentSpanDates(apt)
                first == span[1].day
                last == span[Len(span)].day
                startRow == IndexOfDay(grid, first) \div 7
                endRow == IndexOfDay(grid, last) \div 7
                own == {i \in DOMAIN output : output[i].appointment.id = apt.id}
            IN  (Len(span) > 1 /\ DayInGrid(grid, first) /\ DayInGrid(grid, last)) =>
                  /\ Cardinality(own) = endRow - startRow + 1
                  /\ \A row \in startRow..endRow : \E i \in own : output[i].row = row

-----------------------------------------------------------------------------
(* C4: for every appointment with startTime <= endTime the span dates are  *)
(* the local midnights of the calendar days from the start date to the end *)
(* date inclusive, in increasing order, none missing and none repeated.    *)
SpanIsRunOfDays ==
    \A n \in DOMAIN currentAppointments :
        LET apt == currentAppointments[n]
            span == getAppointmentSpanDates(apt)
        IN  DateLE(apt.startTime, apt.endTime) =>
              /\ Len(span) >= 1
              /\ Len(span) = apt.endTime.day - apt.startTime.day + 1
              /\ \A k \in DOMAIN span : span[k] = Midnight(apt.startTime.day + k - 1)

\* a span across the end of a month (30 June to 1 July, ending at midnight)
\* and one of 24 days (7 June to 30 June)
SpanAcrossMonthEnd ==
    /\ \E n \in DOMAIN currentAppointments :
          LET apt == currentAppointments[n]
          IN  /\ apt.startTime = NewDateTime(2025, 5, 30, 14, 0)
              /\ apt.endTime = NewDateTime(2025, 6, 1, 0, 0)
              /\ getAppointmentSpanDates(apt) = <<NewDate(2025, 5, 30), NewDate(2025, 6, 1)>>
    /\ \E n \in DOMAIN currentAppointments :
          LET apt == currentAppointments[n]
          IN  /\ apt.startTime = NewDateTime(2025, 5, 7, 10, 0)
              /\ apt.endTime = NewDateTime(2025, 5, 30, 14, 0)
              /\ Len(getAppointmentSpanDates(apt)) = 24

-----------------------------------------------------------------------------
(* C5 as stated: the span dates of every appointment, one with endTime     *)
(* before startTime included, are an ordered and non-empty sequence.       *)
SpanAlwaysNonEmpty ==
    \A n \in DOMAIN currentAppointments :
        LET span == getAppointmentSpanDates(currentAppointments[n])
        IN  /\ Len(span) >= 1
            /\ \A k \in 1..(Len(span) - 1) : span[k].day < span[k + 1].day

(* C5 as amended: the span dates of every appointment are an ordered       *)
(* sequence of calendar dates, non-empty exactly when endTime is not       *)
(* before the local midnight of the start date; it is empty when endTime   *)
(* is before that midnight.                                                *)
SpanNonEmptyIffEndNotBeforeStartDay ==
    \A n \in DOMAIN currentAppointments :
        LET apt == currentAppointments[n]
            span == getAppointmentSpanDates(apt)
        IN  /\ \A k \in 1..(Len(span) - 1) : span[k].day < span[k + 1].day
            /\ \A k \in DOMAIN span : span[k].ms = 0
            /\ (Len(span) >= 1) <=> DateLE(Midnight(apt.startTime.day), apt.endTime)
            /\ ~DateLE(Midnight(apt.startTime.day), apt.endTime) => span = <<>>

\* an appointment ending on an earlier day than it starts (empty span) beside
\* one ending earlier on the day it starts (span of that one day)
InvertedSpans ==
    /\ \E n \in DOMAIN currentAppointments :
          LET apt == currentAppointments[n]
          IN  /\ apt.endTime.day < apt.startTime.day
              /\ getAppointmentSpanDates(apt) = <<>>
    /\ \E n \in DOMAIN currentAppointments :
          LET apt == currentAppointments[n]
          IN  /\ apt.endTime.day = apt.startTime.day
              /\ apt.endTime.ms < apt.startTime.ms
              /\ getAppointmentSpanDates(apt) = <<Midnight(apt.startTime.day)>>

-----------------------------------------------------------------------------
(* C6 as stated: in every day cell the visible events are the first 3 of   *)
(* the day's single-day appointments in input order and the hidden count   *)
(* is max(0, number of single-day appointments - 3), never negative.       *)
HiddenCountIsClamped ==
    \A i \in DOMAIN monthData :
        LET date == monthData[i]
            single == singleDayAppointments(date)
            total == Len(single)
        IN  /\ visibleEvents(date) = SubSeq(single, 1, IF total < 3 THEN total ELSE 3)
            /\ hiddenEventsCount(date) = (IF total > 3 THEN total - 3 ELSE 0)

(* C6 as amended: in every day cell the visible events are the first 3 of  *)
(* the day's single-day appointments in input order and the hidden count   *)
(* is the number of single-day appointments minus 3, which is negative     *)
(* below 3 appointments (2 give -1); the "+N more" button is rendered only *)
(* for a positive count, and then N = max(0, number - 3).                  *)
HiddenCountIsTotalMinusThree ==
    \A i \in DOMAIN monthData :
        LET date == monthData[i]
            single == singleDayAppointments(date)
            total == Len(single)
        IN  /\ visibleEvents(date) = SubSeq(single, 1, IF total < 3 THEN total ELSE 3)
            /\ \A k \in DOMAIN visibleEvents(date) :
                  visibleEvents(date)[k].startTime.day = visibleEvents(date)[k].endTime.day
            /\ hiddenEventsCount(date) = total - 3
            /\ ShowMoreRendered(date) <=> total > 3
            /\ ShowMoreRendered(date) =>
                  hiddenEventsCount(date) = (IF total > 3 THEN total - 3 ELSE 0)

\* 5 single-day appointments on 15 June: 3 visible, 2 hidden, the modal opened
FiveGiveThreeVisibleTwoHidden ==
    \E i \in DOMAIN monthData :
        LET date == monthData[i]
        IN  /\ date = NewDate(2025, 5, 15)
            /\ Len(singleDayAppointments(date)) = 5
            /\ Len(visibleEvents(date)) = 3
            /\ hiddenEventsCount(date) = 2
            /\ overflowModal.isOpen

-----------------------------------------------------------------------------
(* C7: getAppointmentsForDate(date) is the list, in input order, of the    *)
(* appointments that start no later than 23:59:59.999 and end no earlier   *)
(* than 00:00:00.000 of that date; one ending exactly at midnight of the   *)
(* date is in the list.                                                    *)
DayListIsClosedOverlap ==
    \A i \in DOMAIN monthData :
        LET date == monthData[i]
            StartsByEndOfDay(apt) ==
                \/ apt.startTime.day < date.day
                \/ apt.startTime.day = date.day /\ apt.startTime.ms <= 86399999
            EndsFromStartOfDay(apt) ==
                \/ apt.endTime.day > date.day
                \/ apt.endTime.day = date.day /\ apt.endTime.ms >= 0
            Qualifies(apt) == StartsByEndOfDay(apt) /\ EndsFromStartOfDay(apt)
        IN  /\ getAppointmentsForDate(date) = SelectSeq(currentAppointments, Qualifies)
            /\ \A n \in DOMAIN currentAppointments :
                  LET apt == currentAppointments[n]
                  IN  (apt.endTime = Midnight(date.day) /\ DateLE(apt.startTime, apt.endTime)) =>
                         \E k \in DOMAIN getAppointmentsForDate(date) :
                             getAppointmentsForDate(date)[k] = apt

\* the appointment from 30 June 14:00 to 1 July 00:00 is in the list of 1 July,
\* after an appointment that comes before it in the input
EndsAtMidnightOfJuly1 ==
    /\ Len(currentAppointments) = 2
    /\ currentAppointments[2].startTime = NewDateTime(2025, 5, 30, 14, 0)
    /\ currentAppointments[2].endTime = NewDate(2025, 6, 1)
    /\ \E i \in DOMAIN monthData :
          /\ monthData[i] = NewDate(2025, 6, 1)
          /\ getAppointmentsForDate(monthData[i]) = currentAppointments

-----------------------------------------------------------------------------
(* C8: a single-day appointment (a span of one date) gets no segment from  *)
(* the planner and is in the single-day list of every grid day it          *)
(* overlaps.                                                               *)
SingleDayOnlyInDayCell ==
    LET grid == monthData
        output == multiDayAppointments
    IN  \A n \in DOMAIN currentAppointments :
          LET apt == currentAppointments[n]
          IN  Len(getAppointmentSpanDates(apt)) = 1 =>
                /\ SegmentsOf(apt, grid) = <<>>
                /\ \A i \in DOMAIN output : output[i].appointment.id # apt.id
                /\ \A i \in DOMAIN grid :
                      (apt.startTime.day <= grid[i].day /\ grid[i].day <= apt.endTime.day) =>
                         \E k \in DOMAIN singleDayAppointments(grid[i]) :
                             singleDayAppointments(grid[i])[k] = apt

\* a single-day appointment on 28 June in the grid of June 2025, in the cell of
\* its day, beside a multi-day appointment that has segments
SingleDayBesideMultiDay ==
    /\ June2025
    /\ multiDayAppointments # <<>>
    /\ \E n \in DOMAIN currentAppointments :
          LET apt == currentAppointments[n]
          IN  /\ apt.startTime = NewDateTime(2025, 5, 28, 10, 0)
              /\ apt.endTime = apt.startTime
              /\ \E i \in DOMAIN monthData :
                    /\ monthData[i].day = apt.startTime.day
                    /\ singleDayAppointments(monthData[i]) = <<apt>>

-----------------------------------------------------------------------------
(* C9: the planner emits segments for a multi-day appointment if and only  *)
(* if both its first and its last span date are dates of the grid; when    *)
(* either is absent it emits none, and the planner's output is what it is  *)
(* without that appointment.                                               *)
Without(list, n) == [k \in 1..(Len(list) - 1) |-> IF k < n THEN list[k] ELSE list[k + 1]]

-----------------------------------------------------------------------------
(* C10: a day cell renders the "+N more" button exactly when it has more   *)
(* than 3 single-day appointments, and a click on it opens the overflow    *)
(* modal with the cell's date and the day's full appointment list, the     *)
(* multi-day appointments that intersect the day included.                 *)
FullDayList(date) ==
    LET OnDay(apt) == apt.startTime.day <= date.day /\ date.day <= apt.endTime.day
    IN  SelectSeq(currentAppointments, OnDay)

SingleDayCount(date) ==
    Cardinality({n \in DOMAIN currentAppointments :
                    /\ currentAppointments[n].startTime.day = date.day
                    /\ currentAppointments[n].endTime.day = date.day})

DisclosureOpensWithFullDayList ==
    /\ [](\A i \in DOMAIN monthData :
             ShowMoreRendered(monthData[i]) <=> SingleDayCount(monthData[i]) > 3)
    /\ [][ (overflowModal' # overflowModal /\ overflowModal'.isOpen) =>
              \E i \in DOMAIN monthData :
                 /\ SingleDayCount(monthData[i]) > 3
                 /\ overflowModal'.date = monthData[i]
                 /\ overflowModal'.appointments = FullDayList(monthData[i]) ]_vars

\* the modal is open on 15 June with 4 single-day appointments and the
\* multi-day appointment from 14 June to 16 June
ModalListsMultiDayToo ==
    /\ overflowModal.isOpen
    /\ overflowModal.date = NewDate(2025, 5, 15)
    /\ Len(overflowModal.appointments) = 5
    /\ \E k \in DOMAIN overflowModal.appointments :
          overflowModal.appointments[k].startTime.day < overflowModal.appointments[k].endTime.day
    /\ Len(singleDayAppointments(overflowModal.date)) = 4

-----------------------------------------------------------------------------
(* Vocabulary of the grid properties *)

\* day numbers of the first day of the reference month and of the next month
MonthFirstDay == DayNumber(getFullYear(currentDate), getMonth(currentDate), 1)
NextMonthFirstDay == DayNumber(getFullYear(currentDate), getMonth(currentDate) + 1, 1)

LeadingDays(grid) == Cardinality({i \in DOMAIN grid : grid[i].day < MonthFirstDay})
TrailingDays(grid) == Cardinality({i \in DOMAIN grid : grid[i].day >= NextMonthFirstDay})

-----------------------------------------------------------------------------
(* C11: for every reference date, every calendar day of the reference      *)
(* month, from the 1st to the last, is in the grid exactly once.           *)
GridCoversMonthOnce ==
    LET grid == monthData
    IN  \A day \in MonthFirstDay..(NextMonthFirstDay - 1) :
            Cardinality({i \in DOMAIN grid : grid[i] = Midnight(day)}) = 1

\* March 2026 starts on a Sunday and has 31 days: the 31st is in the sixth row
MonthReachesSixthRow ==
    /\ getFullYear(currentDate) = 2026
    /\ getMonth(currentDate) = 2
    /\ monthData[7] = NewDate(2026, 2, 1)
    /\ monthData[37] = NewDate(2026, 2, 31)

-----------------------------------------------------------------------------
(* C12 as stated: the grid has at most 6 days before the 1st of the        *)
(* reference month and at most 6 days after its last day.                  *)
AtMostSixLeadingAndTrailing ==
    LET grid == monthData
    IN  LeadingDays(grid) <= 6 /\ TrailingDays(grid) <= 6

(* C12 as amended: the grid has at most 6 leading days, all of the         *)
(* previous month, and 42 - leading - (days of the month) trailing days,   *)
(* all of the following month: at least 5 and at most 14, so more than 6   *)
(* for many months.                                                        *)
SixLeadingFiveToFourteenTrailing ==
    LET grid == monthData
        length == NextMonthFirstDay - MonthFirstDay
        previous == DayNumber(getFullYear(currentDate), getMonth(currentDate) - 1, 1)
        afterNext == DayNumber(getFullYear(currentDate), getMonth(currentDate) + 2, 1)
    IN  /\ LeadingDays(grid) <= 6
        /\ TrailingDays(grid) = GridSize - LeadingDays(grid) - length
        /\ TrailingDays(grid) >= 5
        /\ TrailingDays(grid) <= 14
        /\ \A i \in DOMAIN grid : previous <= grid[i].day /\ grid[i].day < afterNext

\* July 2025 starts on a Tuesday: 1 leading day and 10 trailing days
JulyHasTenTrailingDays ==
    /\ getFullYear(currentDate) = 2025
    /\ getMonth(currentDate) = 6
    /\ LeadingDays(monthData) = 1
    /\ TrailingDays(monthData) = 10
    /\ monthData[42] = NewDate(2025, 7, 10)

-----------------------------------------------------------------------------
(* C14: the grid built for any date of the reference date's month and year *)
(* is the grid of the reference date: the same 42 dates in the same order. *)
SameMonthSameGrid ==
    LET grid == monthData
    IN  \A day \in MonthFirstDay..(NextMonthFirstDay - 1) :
            /\ buildGrid(Midnight(day)) = grid
            /\ buildGrid([day |-> day, ms |-> EndOfDayMs]) = grid

\* the grid of 31 January 2026 09:30 is the grid of 1 January 2026
GridOfJanuary31IsGridOfJanuary1 ==
    /\ currentDate = NewDateTime(2026, 0, 31, 9, 30)
    /\ monthData = buildGrid(NewDate(2026, 0, 1))
    /\ monthData[1] = NewDate(2025, 11, 29)

-----------------------------------------------------------------------------
(* C13: every segment of the planner's output, for every list of           *)
(* appointments and every reference month, has its row in 0..5, its start  *)
(* and end columns in 0..6, and start column <= end column.                *)
SegmentsWithinGrid ==
    LET output == multiDayAppointments
    IN  \A i \in DOMAIN output :
            /\ output[i].row \in 0..5
            /\ output[i].startCol \in 0..6
            /\ output[i].endCol \in 0..6
            /\ output[i].startCol <= output[i].endCol

\* the output for June 2025 holds the segments of an appointment from 7 June
\* to 30 June on rows 1 to 5: columns [5, 6] on row 1 and [0, 0] on row 5
OutputSpansFiveRows ==
    LET output == multiDayAppointments
    IN  /\ June2025
        /\ \A row \in 1..5 : \E i \in DOMAIN output : output[i].row = row
        /\ \E i \in DOMAIN output :
              /\ output[i].row = 1
              /\ output[i].startCol = 5 /\ output[i].endCol = 6
              /\ output[i].appointment.startTime = NewDateTime(2025, 5, 7, 10, 0)
        /\ \E i \in DOMAIN output :
              /\ output[i].row = 5
              /\ output[i].startCol = 0 /\ output[i].endCol = 0
              /\ output[i].appointment.endTime = NewDateTime(2025, 5, 30, 14, 0)

\* x is an element of the sequence
InSeq(list, x) == \E k \in DOMAIN list : list[k] = x

-----------------------------------------------------------------------------
(* C16: for every appointment with endTime < startTime the span dates are  *)
(* the start date alone or empty, so the planner emits no segment for it   *)
(* and the output holds none; when the span is the start date the          *)
(* appointment is in the single-day subset of that day and of no other,    *)
(* and when the span is empty it is in no day's single-day subset.         *)
InvertedIsSingleDayOrVanishes ==
    LET grid == monthData
        output == multiDayAppointments
    IN  \A n \in DOMAIN currentAppointments :
          LET apt == currentAppointments[n]
              span == getAppointmentSpanDates(apt)
              startDate == Midnight(apt.startTime.day)
              dates == {grid[i] : i \in DOMAIN grid} \cup {startDate}
          IN  ~DateLE(apt.startTime, apt.endTime) =>
                /\ Len(span) <= 1
                /\ span \in {<<startDate>>, <<>>}
                /\ SegmentsOf(apt, grid) = <<>>
                /\ \A i \in DOMAIN output : output[i].appointment # apt
                /\ \A date \in dates :
                      InSeq(singleDayAppointments(date), apt)
                          <=> (span = <<startDate>> /\ date = startDate)

\* in the grid of June 2025: an appointment of 7 June from 10:00 to 08:00 is a
\* single-day appointment of 7 June, and one from 28 June to 7 June is in no
\* day cell although 7 June and 28 June list it
InvertedOnSeventhAndVanished ==
    /\ June2025
    /\ \E n \in DOMAIN currentAppointments :
          LET apt == currentAppointments[n]
          IN  /\ apt.startTime = NewDateTime(2025, 5, 7, 10, 0)
              /\ apt.endTime = NewDateTime(2025, 5, 7, 8, 0)
              /\ InSeq(singleDayAppointments(NewDate(2025, 5, 7)), apt)
    /\ \E n \in DOMAIN currentAppointments :
          LET apt == currentAppointments[n]
          IN  /\ apt.startTime = NewDateTime(2025, 5, 28, 10, 0)
              /\ apt.endTime = NewDateTime(2025, 5, 7, 10, 0)
              /\ ~InSeq(singleDayAppointments(NewDate(2025, 5, 28)), apt)
              /\ ~InSeq(singleDayAppointments(NewDate(2025, 5, 7)), apt)
              /\ SegmentsOf(apt, monthData) = <<>>

-----------------------------------------------------------------------------
(* C17 as stated: for every grid date and every appointment with           *)
(* startTime <= endTime that getAppointmentsForDate lists for it, the      *)
(* appointment is in the single-day subset of that date or the planner's   *)
(* output holds a segment of it on the row of the date's cell whose        *)
(* columns cover the cell.                                                 *)
EveryOverlappingEventIsShown ==
    LET grid == monthData
        output == multiDayAppointments
    IN  \A i \in DOMAIN grid :
          LET listed == getAppointmentsForDate(grid[i])
              row == (i - 1) \div 7
              col == (i - 1) % 7
          IN  \A k \in DOMAIN listed :
                LET apt == listed[k]
                IN  DateLE(apt.startTime, apt.endTime) =>
                      \/ InSeq(singleDayAppointments(grid[i]), apt)
                      \/ \E s \in DOMAIN output :
                            /\ output[s].appointment = apt
                            /\ output[s].row = row
                            /\ output[s].startCol <= col
                            /\ col <= output[s].endCol

\* the calendar days around the appointments of the planner specification:
\* 5 June to 3 July 2025
PlanDays == DayNumber(2025, 5, 5)..DayNumber(2025, 6, 3)

-----------------------------------------------------------------------------
(* C18: for every appointment with startTime <= endTime and every calendar *)
(* date, getAppointmentsForDate lists the appointment for the date exactly *)
(* when the date is one of its span dates; the number of days listing the  *)
(* appointment is the length of its span.                                  *)
ListedExactlyOnSpanDates ==
    \A n \in DOMAIN currentAppointments :
        LET apt == currentAppointments[n]
            span == getAppointmentSpanDates(apt)
            listedOn == {day \in PlanDays : InSeq(getAppointmentsForDate(Midnight(day)), apt)}
        IN  DateLE(apt.startTime, apt.endTime) =>
              /\ \A day \in PlanDays :
                    (day \in listedOn) <=> InSeq(span, Midnight(day))
              /\ Cardinality(listedOn) = Len(span)

\* an appointment from 28 June 10:00 to 1 July 00:00 is listed on the four days
\* 28 June .. 1 July, which are its span, and neither on 27 June nor on 2 July
FourDaysListedAndSpanned ==
    \E n \in DOMAIN currentAppointments :
        LET apt == currentAppointments[n]
        IN  /\ apt.startTime = NewDateTime(2025, 5, 28, 10, 0)
            /\ apt.endTime = NewDateTime(2025, 6, 1, 0, 0)
            /\ Len(getAppointmentSpanDates(apt)) = 4
            /\ InSeq(getAppointmentsForDate(NewDate(2025, 5, 28)), apt)
            /\ InSeq(getAppointmentsForDate(NewDate(2025, 6, 1)), apt)
            /\ ~InSeq(getAppointmentsForDate(NewDate(2025, 5, 27)), apt)
            /\ ~InSeq(getAppointmentsForDate(NewDate(2025, 6, 2)), apt)

\* the calendar month of a date, counted in months
MonthIndex(date) == getFullYear(date) * 12 + getMonth(date)

-----------------------------------------------------------------------------
(* C19 as stated: in month view, navigateDate("next") moves the reference  *)
(* date into the next calendar month and navigateDate("prev") into the     *)
(* previous one, from every reference date, days 29, 30 and 31 included.   *)
MonthNavigationMovesOneMonth ==
    [][\A direction \in {"prev", "next"} :
          (view = "month" /\ Navigate(direction)) =>
              MonthIndex(currentDate') =
                  MonthIndex(currentDate) + (IF direction = "next" THEN 1 ELSE -1)]_vars

=============================================================================
